---- MODULE Spec2Model ----
(***************************************************************************)
(* Model of osecure (src/osecure.go, second revision, lines 219-447): an   *)
(* OAuth2 authorization middleware that keeps its credential record in a   *)
(* client-held, signed and encrypted cookie.                               *)
(*                                                                         *)
(* Time is a wall clock in seconds.  Permission identifiers are modelled   *)
(* by their rank in lexicographic order (1 for "a" < 2 for "b"), tokens by *)
(* small integers, request URIs and error texts by strings.                *)
(***************************************************************************)
EXTENDS Integers, Sequences, FiniteSets, TLC

\* ---------------------------------------------------------------- bounds
MaxUnit == 1          \* single seconds the clock may advance by
MaxDelay == 1         \* seconds a remote call may take
MaxTokens == 2        \* distinct tokens the provider hands out
MaxLen == 2           \* length of a permission list returned by the endpoint
StartTime == 1        \* clock value of the initial state

\* ------------------------------------------------------ program constants
SessionExpireTime == 86400
PermissionExpireTime == 600
ZeroTime == 0         \* time.Time{}: before every instant of the clock

Tokens == 1..MaxTokens
PermIds == {1, 2}
URIs == {"/a", "/b?q=1"}

\* The instants the clock takes: the start, up to MaxUnit seconds later,
\* each possibly one permission lifetime and one session lifetime later.
Instants ==
  { StartTime + a + b + c :
      a \in 0..MaxUnit, b \in {0, PermissionExpireTime}, c \in {0, SessionExpireTime} }

Jumps == {1, PermissionExpireTime, SessionExpireTime}

\* Bodies the permissions endpoint may answer with (any order, duplicates).
PermLists == UNION { [1..n -> PermIds] : n \in 0..MaxLen }

\* Outcome of client.Get + json Decode in ensurePermUpdated.
FetchOutcomes ==
  { [ok |-> FALSE, body |-> << >>] } \cup { [ok |-> TRUE, body |-> l] : l \in PermLists }

NoFetch == [ok |-> FALSE, body |-> << >>]

\* Outcome of client.Exchange in CallbackView.
ExchangeErrors == {"invalid_grant"}

ExchangeOutcomes ==
  { [ok |-> FALSE, token |-> 0, err |-> e] : e \in ExchangeErrors }
    \cup { [ok |-> TRUE, token |-> t, err |-> ""] : t \in Tokens }

NoExchange == [ok |-> FALSE, token |-> 0, err |-> ""]

\* ----------------------------------------------------------- cookie values
\* What the request's cookie named s.name holds.
\*   "none"      no cookie
\*   "tampered"  a cookie that fails securecookie verification / decoding
\*   "wrongtype" a valid cookie whose Values["data"] is not *AuthSessionData
\*   "data"      a valid cookie holding an AuthSessionData
Cookie(kind, token, expireAt, permissions, permExpireAt) ==
  [kind |-> kind, Token |-> token, ExpireAt |-> expireAt,
   Permissions |-> permissions, PermExpireAt |-> permExpireAt]

NoCookie == Cookie("none", 0, ZeroTime, << >>, ZeroTime)
Tampered == Cookie("tampered", 0, ZeroTime, << >>, ZeroTime)
WrongType == Cookie("wrongtype", 0, ZeroTime, << >>, ZeroTime)

AuthSessionData(token, expireAt, permissions, permExpireAt) ==
  Cookie("data", token, expireAt, permissions, permExpireAt)

\* Slip: ExpireAt: time.Now()
NewAuthSessionData_NoLifetime(token, now) ==
  AuthSessionData(token, now, << >>, ZeroTime)

NewAuthSessionData(token, now) ==
  AuthSessionData(token, now + SessionExpireTime, << >>, ZeroTime)

\* Slip: !data.ExpireAt.After(time.Now())
IsExpired_NotAfter(data, now) == data.ExpireAt <= now

\* data.ExpireAt.Before(time.Now())
IsExpired(data, now) == data.ExpireAt < now

\* Slip: the zero time is read as "no expiry".
IsPermExpired_ZeroIsFresh(data, now) ==
  data.PermExpireAt # ZeroTime /\ data.PermExpireAt < now

\* Slip: !data.PermExpireAt.After(time.Now())
IsPermExpired_NotAfter(data, now) == data.PermExpireAt <= now

\* data.PermExpireAt.Before(time.Now())
IsPermExpired(data, now) == data.PermExpireAt < now

\* ------------------------------------------------------------ sort package
\* Slip: the new element is put in front, the list is not ordered.
Insert_Front(x, s) == << x >> \o s

RECURSIVE Insert(_, _)
Insert(x, s) ==
  IF s = << >> THEN << x >>
  ELSE IF x <= Head(s) THEN << x >> \o s
       ELSE << Head(s) >> \o Insert(x, Tail(s))

\* Slip: the sort.Strings call is missing.
SortStrings_Identity(s) == s

RECURSIVE SortStrings(_)
SortStrings(s) ==
  IF s = << >> THEN << >> ELSE Insert(Head(s), SortStrings(Tail(s)))

\* Slip: the predicate is perms[h] > x.
RECURSIVE Search_Strict(_, _, _, _)
Search_Strict(perms, x, i, j) ==
  IF i < j
    THEN LET h == (i + j) \div 2
         IN IF ~(perms[h + 1] > x) THEN Search_Strict(perms, x, h + 1, j)
                                   ELSE Search_Strict(perms, x, i, h)
    ELSE i

\* sort.Search: smallest index in [i, j) (0-based) with perms[h] >= x, else j.
RECURSIVE Search(_, _, _, _)
Search(perms, x, i, j) ==
  IF i < j
    THEN LET h == (i + j) \div 2
         IN IF ~(perms[h + 1] >= x) THEN Search(perms, x, h + 1, j)
                                    ELSE Search(perms, x, i, h)
    ELSE i

SearchStrings(perms, x) == Search(perms, x, 0, Len(perms))

IsSorted(s) == \A i \in 1..(Len(s) - 1) : s[i] <= s[i + 1]

\* ------------------------------------------------------- session store
\* s.cookieStore.Get(r, s.name): err is set when a cookie is present and
\* cannot be decoded; a missing cookie gives a new empty session, no error.
CookieStoreGet(cookie) ==
  [err |-> cookie.kind = "tampered",
   found |-> cookie.kind \in {"wrongtype", "data"},
   value |-> cookie]

\* Result of getAuthSessionDataFromRequest: panicked, or data (nil |-> kind # "data").
Nil == NoCookie

getAuthSessionDataFromRequest(cookie) ==
  LET session == CookieStoreGet(cookie)
  IN IF session.err THEN [panicked |-> TRUE, isNil |-> TRUE, data |-> Nil]
     ELSE IF ~session.found THEN [panicked |-> FALSE, isNil |-> TRUE, data |-> Nil]
     ELSE IF session.value.kind # "data"
            THEN [panicked |-> FALSE, isNil |-> TRUE, data |-> Nil]
     ELSE [panicked |-> FALSE, isNil |-> FALSE, data |-> session.value]

\* issueAuthCookie: panics when the request's cookie cannot be decoded,
\* otherwise the response carries the record as the new cookie (session.Save,
\* whose error return the code discards, is taken to set the cookie).
issueAuthCookie(cookie, data) ==
  IF CookieStoreGet(cookie).err
    THEN [panicked |-> TRUE, wrote |-> FALSE, setCookie |-> NoCookie]
    ELSE [panicked |-> FALSE, wrote |-> TRUE, setCookie |-> data]

\* ------------------------------------------------------------ responses
NoLocation == [kind |-> "none", state |-> ""]
NoResult == [kind |-> "none", perms |-> << >>, bool |-> FALSE]
InvalidSession == [kind |-> "invalid session", perms |-> << >>, bool |-> FALSE]
PermsResult(perms) == [kind |-> "perms", perms |-> perms, bool |-> FALSE]
BoolResult(b) == [kind |-> "bool", perms |-> << >>, bool |-> b]

Panic == 0            \* the handler's goroutine panicked: no response written

\* What one handled request did.
\*   cookie    the cookie the request carried
\*   now       the clock when the handler read it
\*   uri       the request URI (Secured) or the state parameter (CallbackView)
\*   query     HasPermission's argument
\*   handler   calls of the wrapped handler
\*   fetches   GETs of the permissions endpoint, fetch: what the call
\*             answered, fetchToken: the bearer token it was made with
\*   exchanges calls of client.Exchange, exchange: what the call answered
\*   ensured   ensurePermUpdated was entered, data: the record after it
\*   wrote     the response sets the cookie, to setCookie, stamped at wroteAt
\*   log       the order of the handler's outward effects
\*   refreshedByPrev  the cookie is the record that a permission refresh of
\*             the request handled just before this one wrote
\*   answersRedirect  the request handled just before this one was answered
\*             by the Guard's redirect, and this one carries its state value
\*   replaced  the cookie the client held when the Set-Cookie of this
\*             response replaced it
\*   overlapsPrev  the request was sent with the cookie that the request
\*             handled just before it was sent with too, and has replaced
Response(op, cookie, now) ==
  [op |-> op, cookie |-> cookie, now |-> now, uri |-> "", query |-> 0,
   status |-> 200, handler |-> 0, location |-> NoLocation, body |-> "",
   wrote |-> FALSE, setCookie |-> NoCookie, wroteAt |-> ZeroTime,
   fetches |-> 0, fetch |-> NoFetch, fetchToken |-> 0,
   exchanges |-> 0, exchange |-> NoExchange,
   ensured |-> FALSE, data |-> Nil, result |-> NoResult,
   log |-> << >>, refreshedByPrev |-> FALSE, answersRedirect |-> FALSE,
   replaced |-> NoCookie, overlapsPrev |-> FALSE]

NoResponse == Response("none", NoCookie, ZeroTime)

\* ---------------------------------------------------------------- guard
\* Slip: data == nil || !data.IsExpired()
isAuthorized_Negated(cookie, now) ==
  LET got == getAuthSessionDataFromRequest(cookie)
  IN [panicked |-> got.panicked,
      ok |-> ~got.panicked /\ ~(got.isNil \/ ~IsExpired(got.data, now))]

isAuthorized(cookie, now) ==
  LET got == getAuthSessionDataFromRequest(cookie)
  IN [panicked |-> got.panicked,
      ok |-> ~got.panicked /\ ~(got.isNil \/ IsExpired(got.data, now))]

\* startOAuth: 303 to client.AuthCodeURL(r.RequestURI)
startOAuth(resp, uri) ==
  [resp EXCEPT !.status = 303, !.location = [kind |-> "auth", state |-> uri],
               !.log = @ \o << "redirect" >>]

\* Slip: if s.isAuthorized(r) { s.startOAuth(w, r); return }
Secured_Inverted(cookie, now, uri) ==
  LET resp == [Response("Secured", cookie, now) EXCEPT !.uri = uri]
      auth == isAuthorized(cookie, now)
  IN IF auth.panicked THEN [resp EXCEPT !.status = Panic]
     ELSE IF auth.ok THEN startOAuth(resp, uri)
     ELSE [resp EXCEPT !.handler = @ + 1, !.log = @ \o << "handler" >>]

\* The handler returned by Secured, for a request of uri carrying cookie.
Secured(cookie, now, uri) ==
  LET resp == [Response("Secured", cookie, now) EXCEPT !.uri = uri]
      auth == isAuthorized(cookie, now)
  IN IF auth.panicked THEN [resp EXCEPT !.status = Panic]
     ELSE IF ~auth.ok THEN startOAuth(resp, uri)
     ELSE [resp EXCEPT !.handler = @ + 1, !.log = @ \o << "handler" >>]

\* ----------------------------------------------------- permission cache
\* Slip: the errors of client.Get and Decode are dropped, the empty result is cached.
ensurePermUpdated_IgnoreErr(resp, data, now, fetch, d) ==
  LET entered == [resp EXCEPT !.ensured = TRUE, !.data = data]
  IN IF ~IsPermExpired(data, now)
       THEN [panicked |-> FALSE, data |-> data, resp |-> entered]
     ELSE LET fetched == [entered EXCEPT !.fetches = @ + 1,
                                         !.fetch = fetch,
                                         !.fetchToken = data.Token,
                                         !.log = @ \o << "fetch" >>]
          IN 
                  LET updated ==
                        [data EXCEPT !.Permissions = SortStrings(fetch.body),
                                     !.PermExpireAt = now + d + PermissionExpireTime]
                      issued == issueAuthCookie(resp.cookie, updated)
                  IN [panicked |-> issued.panicked, data |-> updated,
                      resp |-> [fetched EXCEPT
                                  !.status = IF issued.panicked THEN Panic ELSE @,
                                  !.wrote = issued.wrote,
                                  !.setCookie = issued.setCookie,
                                  !.wroteAt = now + d,
                                  !.data = updated,
                                  !.log = IF issued.wrote THEN @ \o << "write" >> ELSE @]]

\* Slip: the refreshed record is not saved (no issueAuthCookie call).
ensurePermUpdated_NoWrite(resp, data, now, fetch, d) ==
  LET entered == [resp EXCEPT !.ensured = TRUE, !.data = data]
  IN IF ~IsPermExpired(data, now)
       THEN [panicked |-> FALSE, data |-> data, resp |-> entered]
     ELSE LET fetched == [entered EXCEPT !.fetches = @ + 1,
                                         !.fetch = fetch,
                                         !.fetchToken = data.Token,
                                         !.log = @ \o << "fetch" >>]
          IN IF ~fetch.ok
               THEN [panicked |-> TRUE, data |-> data,
                     resp |-> [fetched EXCEPT !.status = Panic]]
             ELSE LET updated ==
                        [data EXCEPT !.Permissions = SortStrings(fetch.body),
                                     !.PermExpireAt = now + d + PermissionExpireTime]
                  IN [panicked |-> FALSE, data |-> updated,
                      resp |-> [fetched EXCEPT !.data = updated]]

\* Slip: the cache is stamped with the session lifetime.
ensurePermUpdated_LongStamp(resp, data, now, fetch, d) ==
  LET entered == [resp EXCEPT !.ensured = TRUE, !.data = data]
  IN IF ~IsPermExpired(data, now)
       THEN [panicked |-> FALSE, data |-> data, resp |-> entered]
     ELSE LET fetched == [entered EXCEPT !.fetches = @ + 1,
                                         !.fetch = fetch,
                                         !.fetchToken = data.Token,
                                         !.log = @ \o << "fetch" >>]
          IN IF ~fetch.ok
               THEN [panicked |-> TRUE, data |-> data,
                     resp |-> [fetched EXCEPT !.status = Panic]]
             ELSE
                  LET updated ==
                        [data EXCEPT !.Permissions = SortStrings(fetch.body),
                                     !.PermExpireAt = now + d + SessionExpireTime]
                      issued == issueAuthCookie(resp.cookie, updated)
                  IN [panicked |-> issued.panicked, data |-> updated,
                      resp |-> [fetched EXCEPT
                                  !.status = IF issued.panicked THEN Panic ELSE @,
                                  !.wrote = issued.wrote,
                                  !.setCookie = issued.setCookie,
                                  !.wroteAt = now + d,
                                  !.data = updated,
                                  !.log = IF issued.wrote THEN @ \o << "write" >> ELSE @]]

\* Slip: the refresh also renews ExpireAt (sliding session).
ensurePermUpdated_Extends(resp, data, now, fetch, d) ==
  LET entered == [resp EXCEPT !.ensured = TRUE, !.data = data]
  IN IF ~IsPermExpired(data, now)
       THEN [panicked |-> FALSE, data |-> data, resp |-> entered]
     ELSE LET fetched == [entered EXCEPT !.fetches = @ + 1,
                                         !.fetch = fetch,
                                         !.fetchToken = data.Token,
                                         !.log = @ \o << "fetch" >>]
          IN IF ~fetch.ok
               THEN [panicked |-> TRUE, data |-> data,
                     resp |-> [fetched EXCEPT !.status = Panic]]
             ELSE
                  LET updated ==
                        [data EXCEPT !.Permissions = SortStrings(fetch.body),
                                     !.PermExpireAt = now + d + PermissionExpireTime,
                                     !.ExpireAt = now + d + SessionExpireTime]
                      issued == issueAuthCookie(resp.cookie, updated)
                  IN [panicked |-> issued.panicked, data |-> updated,
                      resp |-> [fetched EXCEPT
                                  !.status = IF issued.panicked THEN Panic ELSE @,
                                  !.wrote = issued.wrote,
                                  !.setCookie = issued.setCookie,
                                  !.wroteAt = now + d,
                                  !.data = updated,
                                  !.log = IF issued.wrote THEN @ \o << "write" >> ELSE @]]

\* Slip: the IsPermExpired check is missing, every call fetches.
ensurePermUpdated_AlwaysFetch(resp, data, now, fetch, d) ==
  LET entered == [resp EXCEPT !.ensured = TRUE, !.data = data]
      fetched == [entered EXCEPT !.fetches = @ + 1, !.fetch = fetch,
                                 !.fetchToken = data.Token,
                                 !.log = @ \o << "fetch" >>]
  IN IF ~fetch.ok
       THEN [panicked |-> TRUE, data |-> data,
             resp |-> [fetched EXCEPT !.status = Panic]]
     ELSE LET updated ==
                [data EXCEPT !.Permissions = SortStrings(fetch.body),
                             !.PermExpireAt = now + d + PermissionExpireTime]
              issued == issueAuthCookie(resp.cookie, updated)
          IN [panicked |-> issued.panicked, data |-> updated,
              resp |-> [fetched EXCEPT
                          !.status = IF issued.panicked THEN Panic ELSE @,
                          !.wrote = issued.wrote,
                          !.setCookie = issued.setCookie,
                          !.wroteAt = now + d,
                          !.data = updated,
                          !.log = IF issued.wrote THEN @ \o << "write" >> ELSE @]]

\* ensurePermUpdated for the record data read from cookie; fetch is what
\* the permissions endpoint answers, d the seconds the call takes.
\* Gives the response so far and the record as the caller sees it afterwards.
ensurePermUpdated(resp, data, now, fetch, d) ==
  LET entered == [resp EXCEPT !.ensured = TRUE, !.data = data]
  IN IF ~IsPermExpired(data, now)
       THEN [panicked |-> FALSE, data |-> data, resp |-> entered]
     ELSE LET fetched == [entered EXCEPT !.fetches = @ + 1,
                                         !.fetch = fetch,
                                         !.fetchToken = data.Token,
                                         !.log = @ \o << "fetch" >>]
          IN IF ~fetch.ok
               THEN [panicked |-> TRUE, data |-> data,
                     resp |-> [fetched EXCEPT !.status = Panic]]
             ELSE LET updated ==
                        [data EXCEPT !.Permissions = SortStrings(fetch.body),
                                     !.PermExpireAt = now + d + PermissionExpireTime]
                      issued == issueAuthCookie(resp.cookie, updated)
                  IN [panicked |-> issued.panicked, data |-> updated,
                      resp |-> [fetched EXCEPT
                                  !.status = IF issued.panicked THEN Panic ELSE @,
                                  !.wrote = issued.wrote,
                                  !.setCookie = issued.setCookie,
                                  !.wroteAt = now + d,
                                  !.data = updated,
                                  !.log = IF issued.wrote THEN @ \o << "write" >> ELSE @]]

\* Slip: the data == nil || data.IsExpired() check is missing.
GetPermissions_NoCheck(cookie, now, fetch, d) ==
  LET resp == Response("GetPermissions", cookie, now)
      got == getAuthSessionDataFromRequest(cookie)
  IN IF got.panicked THEN [resp EXCEPT !.status = Panic]
     ELSE LET ens == ensurePermUpdated(resp, got.data, now, fetch, d)
          IN IF ens.panicked THEN ens.resp
             ELSE [ens.resp EXCEPT !.result = PermsResult(ens.data.Permissions),
                                   !.log = @ \o << "return" >>]

GetPermissions(cookie, now, fetch, d) ==
  LET resp == Response("GetPermissions", cookie, now)
      got == getAuthSessionDataFromRequest(cookie)
  IN IF got.panicked THEN [resp EXCEPT !.status = Panic]
     ELSE IF got.isNil \/ IsExpired(got.data, now)
       THEN [resp EXCEPT !.result = InvalidSession, !.log = @ \o << "return" >>]
     ELSE LET ens == ensurePermUpdated(resp, got.data, now, fetch, d)
          IN IF ens.panicked THEN ens.resp
             ELSE [ens.resp EXCEPT !.result = PermsResult(ens.data.Permissions),
                                   !.log = @ \o << "return" >>]

\* Slip: if data == nil { return false }, the expiry is not looked at.
HasPermission_NoExpiry(cookie, now, permission, fetch, d) ==
  LET resp == [Response("HasPermission", cookie, now) EXCEPT !.query = permission]
      got == getAuthSessionDataFromRequest(cookie)
  IN IF got.panicked THEN [resp EXCEPT !.status = Panic]
     ELSE IF got.isNil
       THEN [resp EXCEPT !.result = BoolResult(FALSE), !.log = @ \o << "return" >>]
     ELSE LET ens == ensurePermUpdated(resp, got.data, now, fetch, d)
              perms == ens.data.Permissions
              id == SearchStrings(perms, permission)
              result == id < Len(perms) /\ perms[id + 1] = permission
          IN IF ens.panicked THEN ens.resp
             ELSE [ens.resp EXCEPT !.result = BoolResult(result),
                                   !.log = @ \o << "return" >>]

HasPermission(cookie, now, permission, fetch, d) ==
  LET resp == [Response("HasPermission", cookie, now) EXCEPT !.query = permission]
      got == getAuthSessionDataFromRequest(cookie)
  IN IF got.panicked THEN [resp EXCEPT !.status = Panic]
     ELSE IF got.isNil \/ IsExpired(got.data, now)
       THEN [resp EXCEPT !.result = BoolResult(FALSE), !.log = @ \o << "return" >>]
     ELSE LET ens == ensurePermUpdated(resp, got.data, now, fetch, d)
              perms == ens.data.Permissions
              id == SearchStrings(perms, permission)
              result == id < Len(perms) /\ perms[id + 1] = permission
          IN IF ens.panicked THEN ens.resp
             ELSE [ens.resp EXCEPT !.result = BoolResult(result),
                                   !.log = @ \o << "return" >>]

\* ------------------------------------------------------- flow controller
\* Slip: the err != nil branch does not return.
CallbackView_NoReturn(cookie, now, exchange, cont, d) ==
  LET resp == [Response("CallbackView", cookie, now) EXCEPT
                 !.uri = cont, !.exchanges = 1, !.exchange = exchange,
                 !.log = << "exchange" >>]
      failed == IF exchange.ok THEN resp
                ELSE [resp EXCEPT !.status = 400, !.body = exchange.err,
                                  !.log = @ \o << "error" >>]
      issued == issueAuthCookie(cookie, NewAuthSessionData(exchange.token, now + d))
  IN IF issued.panicked THEN [failed EXCEPT !.status = Panic]
     ELSE [failed EXCEPT !.wrote = issued.wrote,
                         !.setCookie = issued.setCookie,
                         !.wroteAt = now + d,
                         !.status = IF exchange.ok THEN 303 ELSE @,
                         !.location = [kind |-> "cont", state |-> cont],
                         !.log = @ \o << "write", "redirect" >>]

\* Slip: http.Redirect(w, r, "/", 303), the state parameter is not used.
CallbackView_RedirectRoot(cookie, now, exchange, cont, d) ==
  LET resp == [Response("CallbackView", cookie, now) EXCEPT
                 !.uri = cont, !.exchanges = 1, !.exchange = exchange,
                 !.log = << "exchange" >>]
  IN IF ~exchange.ok
       THEN [resp EXCEPT !.status = 400, !.body = exchange.err,
                         !.log = @ \o << "error" >>]
     ELSE LET issued == issueAuthCookie(cookie, NewAuthSessionData(exchange.token, now + d))
          IN IF issued.panicked THEN [resp EXCEPT !.status = Panic]
             ELSE [resp EXCEPT !.wrote = issued.wrote,
                               !.setCookie = issued.setCookie,
                               !.wroteAt = now + d,
                               !.status = 303,
                               !.location = [kind |-> "cont", state |-> "/"],
                               !.log = @ \o << "write", "redirect" >>]

\* CallbackView for a request with query parameter state = cont; exchange is
\* what client.Exchange answers for its code, d the seconds the call takes.
CallbackView(cookie, now, exchange, cont, d) ==
  LET resp == [Response("CallbackView", cookie, now) EXCEPT
                 !.uri = cont, !.exchanges = 1, !.exchange = exchange,
                 !.log = << "exchange" >>]
  IN IF ~exchange.ok
       THEN [resp EXCEPT !.status = 400, !.body = exchange.err,
                         !.log = @ \o << "error" >>]
     ELSE LET issued == issueAuthCookie(cookie, NewAuthSessionData(exchange.token, now + d))
          IN IF issued.panicked THEN [resp EXCEPT !.status = Panic]
             ELSE [resp EXCEPT !.wrote = issued.wrote,
                               !.setCookie = issued.setCookie,
                               !.wroteAt = now + d,
                               !.status = 303,
                               !.location = [kind |-> "cont", state |-> cont],
                               !.log = @ \o << "write", "redirect" >>]

\* ------------------------------------------------------------------ state
VARIABLES
  clock,   \* time.Now(), in seconds
  jar,     \* the cookie named s.name the client holds
  last,    \* what the latest request handled for the client's cookie did
  origin,  \* history: the endpoint call the list in jar comes from
  inflight \* the cookie of a request on its way while others are handled

vars == << clock, jar, last, origin, inflight >>

\* No request is on its way.
Idle == Cookie("idle", 0, ZeroTime, << >>, ZeroTime)

\* The list in the cookie comes from no call of the permissions endpoint.
NoOrigin == [fetched |-> FALSE, token |-> 0, at |-> ZeroTime, list |-> << >>]

\* The call made by the handler that answered resp: the token it was made
\* with, the instant its body was decoded, the list in the body (in order).
FetchOf(resp) ==
  [fetched |-> TRUE, token |-> resp.fetchToken, at |-> resp.wroteAt,
   list |-> SortStrings(resp.fetch.body)]

Init ==
  /\ clock = StartTime
  /\ jar = NoCookie
  /\ last = NoResponse
  /\ origin = NoOrigin
  /\ inflight = Idle

\* Seconds a remote call made at instant t may take.
Delays(t) == { d \in 0..MaxDelay : t + d \in Instants }

\* The handler answers resp at instant t; the client receives it, and a
\* Set-Cookie header replaces the cookie it holds.
Deliver(resp, t) ==
  /\ jar' = IF resp.wrote THEN resp.setCookie ELSE jar
  /\ origin' = IF ~resp.wrote THEN origin
               ELSE IF resp.fetches = 1 THEN FetchOf(resp)
               ELSE NoOrigin
  /\ last' = [resp EXCEPT
                !.refreshedByPrev =
                  /\ last.ensured /\ last.fetches = 1 /\ last.wrote
                  /\ resp.cookie = last.setCookie,
                !.answersRedirect =
                  /\ last.op = "Secured" /\ last.status = 303
                  /\ resp.op = "CallbackView" /\ resp.exchange.ok
                  /\ resp.uri = last.location.state,
                !.replaced = IF resp.wrote THEN jar ELSE NoCookie,
                !.overlapsPrev =
                  /\ last.op # "none" /\ last.wrote
                  /\ last.setCookie # last.cookie
                  /\ resp.cookie = last.cookie]
  /\ clock' = t

\* Time passes.
Tick ==
  /\ \E j \in Jumps : clock + j \in Instants /\ clock' = clock + j
  /\ UNCHANGED << jar, last, origin, inflight >>

\* The client drops its cookie, or replaces it by one the store cannot
\* decode, or by one whose payload is not an AuthSessionData.  No response
\* observed so far is about the new cookie.
ClientSetsCookie ==
  /\ \E c \in {NoCookie, Tampered, WrongType} : jar # c /\ jar' = c
  /\ last' = NoResponse
  /\ origin' = NoOrigin
  /\ UNCHANGED << clock, inflight >>

\* Whether a permission query for cookie at instant now reaches the
\* permissions endpoint: the session is valid and its cache is stale.
ReachesEndpoint(cookie, now) ==
  LET got == getAuthSessionDataFromRequest(cookie)
  IN /\ ~got.panicked
     /\ ~(got.isNil \/ IsExpired(got.data, now))
     /\ IsPermExpired(got.data, now)

\* The endpoint answers (and the call takes time) only when it is called.
Answers(cookie, now) ==
  IF ReachesEndpoint(cookie, now)
    THEN { [fetch |-> f, d |-> d] : f \in FetchOutcomes, d \in Delays(now) }
    ELSE { [fetch |-> NoFetch, d |-> 0] }

\* One request at a time: the client waits for the answer before it sends
\* the next request.
SecuredRequest ==
  /\ \E uri \in URIs : Deliver(Secured(jar, clock, uri), clock)
  /\ UNCHANGED inflight

GetPermissionsRequest ==
  /\ \E a \in Answers(jar, clock) :
       Deliver(GetPermissions(jar, clock, a.fetch, a.d), clock + a.d)
  /\ UNCHANGED inflight

HasPermissionRequest ==
  /\ \E permission \in PermIds, a \in Answers(jar, clock) :
       Deliver(HasPermission(jar, clock, permission, a.fetch, a.d), clock + a.d)
  /\ UNCHANGED inflight

CallbackRequest ==
  /\ \E exchange \in ExchangeOutcomes, d \in Delays(clock), cont \in URIs :
       Deliver(CallbackView(jar, clock, exchange, cont, d), clock + d)
  /\ UNCHANGED inflight

Next ==
  \/ Tick
  \/ ClientSetsCookie
  \/ SecuredRequest
  \/ GetPermissionsRequest
  \/ HasPermissionRequest
  \/ CallbackRequest

Spec == Init /\ [][Next]_vars

\* ------------------------------------------------ concurrent requests
\* net/http serves every request in a goroutine of its own and the handlers
\* share no mutable state, so a client may send a request while another is
\* still on its way.  A request carries the cookie the client holds when it
\* sends it, is handled at the instant it reaches its handler, and the
\* client receives the answer; requests sent after it may be handled and
\* answered before it.  The requests of one burst: the only time that
\* passes is the time the remote calls take.

\* The client sends a request with the cookie it holds; it is on its way.
SendRequest ==
  /\ inflight = Idle
  /\ inflight' = jar
  /\ UNCHANGED << clock, jar, last, origin >>

\* The request on its way reaches its handler and is answered.
Handled ==
  /\ inflight # Idle
  /\ inflight' = Idle

SecuredAnswer ==
  /\ Handled
  /\ \E uri \in URIs : Deliver(Secured(inflight, clock, uri), clock)

GetPermissionsAnswer ==
  /\ Handled
  /\ \E a \in Answers(inflight, clock) :
       Deliver(GetPermissions(inflight, clock, a.fetch, a.d), clock + a.d)

HasPermissionAnswer ==
  /\ Handled
  /\ \E permission \in PermIds, a \in Answers(inflight, clock) :
       Deliver(HasPermission(inflight, clock, permission, a.fetch, a.d),
               clock + a.d)

CallbackAnswer ==
  /\ Handled
  /\ \E exchange \in ExchangeOutcomes, d \in Delays(clock), cont \in URIs :
       Deliver(CallbackView(inflight, clock, exchange, cont, d), clock + d)

NextConc ==
  \/ SendRequest
  \/ SecuredRequest
  \/ GetPermissionsRequest
  \/ HasPermissionRequest
  \/ CallbackRequest
  \/ SecuredAnswer
  \/ GetPermissionsAnswer
  \/ HasPermissionAnswer
  \/ CallbackAnswer

SpecConc == Init /\ [][NextConc]_vars

\* ================================================================ claims
Range(s) == { s[i] : i \in 1..Len(s) }

AuthLocation(uri) == [kind |-> "auth", state |-> uri]
ContLocation(cont) == [kind |-> "cont", state |-> cont]

\* C1: a Secured request that carries no session cookie is answered by the
\* 303 redirect to the authorization URL (state = the request URI) and the
\* wrapped handler is not invoked.
C1_NoCookieRedirects ==
  (last.op = "Secured" /\ last.cookie.kind = "none") =>
    /\ last.status = 303
    /\ last.location = AuthLocation(last.uri)
    /\ last.handler = 0

C1_Witness ==
  last.op = "Secured" /\ last.cookie.kind = "none" /\ last.status = 303

\* C2: a Secured request whose cookie holds a record with expireAt in the
\* future invokes the wrapped handler exactly once and does nothing else: no
\* redirect, no cookie write, no token exchange, no permissions fetch, and the
\* client's record stays as it was.
C2_ValidSessionPassesThrough ==
  (last.op = "Secured" /\ last.cookie.kind = "data"
     /\ last.now < last.cookie.ExpireAt) =>
    /\ last.handler = 1
    /\ last.log = << "handler" >>
    /\ last.status = 200
    /\ last.location = NoLocation
    /\ ~last.wrote
    /\ last.exchanges = 0
    /\ last.fetches = 0
    /\ jar = last.cookie

C2_Witness ==
  /\ last.op = "Secured" /\ last.cookie.kind = "data"
  /\ last.now < last.cookie.ExpireAt
  /\ last.handler = 1

C4_ExpiredNeverAuthorizes ==
  (last.cookie.kind = "data" /\ last.cookie.ExpireAt < last.now) =>
    /\ last.op = "Secured" => (last.handler = 0 /\ last.status = 303)
    /\ last.op = "GetPermissions" => last.result = InvalidSession
    /\ last.op = "HasPermission" =>
         (last.result = BoolResult(FALSE) /\ ~last.ensured)

C4_Witness ==
  /\ last.op = "HasPermission" /\ last.cookie.kind = "data"
  /\ last.cookie.ExpireAt < last.now
  /\ last.now < last.cookie.PermExpireAt
  /\ last.query \in Range(last.cookie.Permissions)
  /\ last.result = BoolResult(FALSE)

\* C5 as stated: a missing cookie, a cookie that fails verification or
\* decoding, and a cookie whose payload has the wrong type are all read as
\* "absent": the Guard redirects into the flow, GetPermissions returns invalid
\* session and HasPermission returns false; the request is never aborted.
C5_BadCookieDegrades ==
  last.cookie.kind \in {"none", "tampered", "wrongtype"} =>
    /\ last.op = "Secured" =>
         (last.status = 303 /\ last.location = AuthLocation(last.uri))
    /\ last.op = "GetPermissions" => last.result = InvalidSession
    /\ last.op = "HasPermission" => last.result = BoolResult(FALSE)

\* C6: when the code-for-token exchange fails, the callback answers 400 with
\* the failure text, writes no cookie, issues no redirect, and the record the
\* client held is left as it was.
C6_ExchangeFailure ==
  (last.op = "CallbackView" /\ ~last.exchange.ok) =>
    /\ last.status = 400
    /\ last.body = last.exchange.err
    /\ ~last.wrote
    /\ last.location = NoLocation
    /\ last.log = << "exchange", "error" >>
    /\ jar = last.cookie

C6_Witness ==
  /\ last.op = "CallbackView" /\ ~last.exchange.ok
  /\ last.cookie.kind = "data"
  /\ last.status = 400
  /\ jar = last.cookie

\* C7 as stated: when the exchange succeeds, the callback writes the record
\* (returned token, expireAt = now + SessionExpireTime, no permissions,
\* permExpireAt unset) to the cookie, only then redirects (303) to the state
\* value, and the Guard authorizes that cookie at every instant before
\* expireAt.
C7_ExchangeSuccess ==
  (last.op = "CallbackView" /\ last.exchange.ok) =>
    /\ last.wrote
    /\ last.setCookie =
         AuthSessionData(last.exchange.token, last.wroteAt + SessionExpireTime,
                         << >>, ZeroTime)
    /\ last.status = 303
    /\ last.location = ContLocation(last.uri)
    /\ last.log = << "exchange", "write", "redirect" >>
    /\ \A t \in Instants :
         (last.wroteAt <= t /\ t < last.setCookie.ExpireAt) =>
           isAuthorized(last.setCookie, t).ok

\* C8: when the store yields no record (no cookie, or a payload that is no
\* record) or the record's expireAt is before now, GetPermissions returns the
\* invalid-session failure and HasPermission returns false, with no call to
\* the permissions endpoint, no cookie write and no redirect.
C8_NoSessionNoEffect ==
  LET absent ==
        \/ last.cookie.kind \in {"none", "wrongtype"}
        \/ last.cookie.kind = "data" /\ last.cookie.ExpireAt < last.now
      quiet ==
        /\ last.fetches = 0
        /\ ~last.ensured
        /\ ~last.wrote
        /\ last.location = NoLocation
        /\ last.log = << "return" >>
  IN /\ (last.op = "GetPermissions" /\ absent) =>
          (last.result = InvalidSession /\ quiet)
     /\ (last.op = "HasPermission" /\ absent) =>
          (last.result = BoolResult(FALSE) /\ quiet)

C8_Witness ==
  /\ last.op = "GetPermissions"
  /\ last.cookie.kind \in {"none", "wrongtype"}
  /\ last.result = InvalidSession

\* C9 as stated: ensurePermUpdated makes no fetch exactly when
\* now < permExpireAt; in every other case, now = permExpireAt included, it
\* fetches.
C9_NoOpIffBefore ==
  last.ensured =>
    (last.fetches = 0 <=> last.now < last.cookie.PermExpireAt)

\* C9 as amended: ensurePermUpdated is a no-op exactly when
\* now <= permExpireAt (no fetch, no cookie write, record unchanged); it
\* fetches exactly when permExpireAt is before now.
C9_NoOpIffNotAfter ==
  last.ensured =>
    IF last.now <= last.cookie.PermExpireAt
      THEN /\ last.fetches = 0
           /\ ~last.wrote
           /\ last.data = last.cookie
           /\ jar = last.cookie
      ELSE last.fetches = 1

C9_Witness ==
  /\ last.ensured
  /\ last.now = last.cookie.PermExpireAt
  /\ last.fetches = 0

\* C10: when a permission query on a stale record has refreshed and written
\* the record, and the next query presents that written record while the
\* clock is not past its permExpireAt, the two make exactly one fetch together
\* and the second gives the permission list the first gave.
C10_TwoQueriesOneFetch ==
  [][ ( /\ last.ensured /\ last.cookie.PermExpireAt < last.now /\ last.wrote
        /\ last'.ensured
        /\ last'.cookie = last.setCookie
        /\ last'.now <= last.setCookie.PermExpireAt )
      => ( /\ last.fetches + last'.fetches = 1
           /\ last'.data.Permissions = last.data.Permissions
           /\ last'.op = "GetPermissions" =>
                last'.result = PermsResult(last.data.Permissions) ) ]_vars

C10_Witness ==
  /\ last.ensured /\ last.refreshedByPrev
  /\ last.now = last.cookie.PermExpireAt
  /\ last.fetches = 0

Count(x, s) == Cardinality({ i \in 1..Len(s) : s[i] = x })

SameMultiset(a, b) ==
  /\ Len(a) = Len(b)
  /\ \A x \in Range(a) \cup Range(b) : Count(x, a) = Count(x, b)

PermissionQuery == {"GetPermissions", "HasPermission"}

\* C11: when the cache is stale and the endpoint answers with a list L, the
\* record after ensurePermUpdated has L sorted ascending (same multiset) as
\* permissions, permExpireAt = now + PermissionExpireTime, token and expireAt
\* as before, and it is written to the cookie before the list is returned.
C11_RefreshSortsStampsWrites ==
  (last.ensured /\ last.fetches = 1 /\ last.fetch.ok) =>
    /\ IsSorted(last.data.Permissions)
    /\ SameMultiset(last.data.Permissions, last.fetch.body)
    /\ last.data.PermExpireAt = last.wroteAt + PermissionExpireTime
    /\ last.now <= last.wroteAt
    /\ last.data.Token = last.cookie.Token
    /\ last.data.ExpireAt = last.cookie.ExpireAt
    /\ last.wrote
    /\ last.setCookie = last.data
    /\ jar = last.data
    /\ last.log = << "fetch", "write", "return" >>
    /\ last.op = "GetPermissions" =>
         last.result = PermsResult(last.data.Permissions)

C11_Witness ==
  /\ last.ensured /\ last.fetches = 1 /\ last.fetch.ok
  /\ last.fetch.body = << 2, 1 >>
  /\ last.data.Permissions = << 1, 2 >>
  /\ last.wrote

\* C12: for a valid unexpired session HasPermission(p) returns true exactly
\* when p is an element of the permission list in effect after
\* ensurePermUpdated (cached when fresh, fetched when stale).
C12_HasPermissionIsMembership ==
  (last.op = "HasPermission" /\ last.ensured /\ last.status # Panic) =>
    last.result = BoolResult(last.query \in Range(last.data.Permissions))

C12_Witness ==
  /\ last.op = "HasPermission" /\ last.ensured
  /\ last.fetches = 0
  /\ Len(last.data.Permissions) = 2
  /\ last.data.Permissions[1] = last.data.Permissions[2]
  /\ last.result = BoolResult(TRUE)

\* C13: when the permissions fetch fails the request is aborted and nothing
\* is cached: no cookie is written, the client's record is as it was, and
\* neither query returns a result.
C13_FetchFailureIsFatal ==
  (last.fetches = 1 /\ ~last.fetch.ok) =>
    /\ last.status = Panic
    /\ last.result = NoResult
    /\ ~last.wrote
    /\ last.log = << "fetch" >>
    /\ jar = last.cookie

C13_Witness ==
  /\ last.fetches = 1 /\ ~last.fetch.ok
  /\ last.cookie.Permissions # << >>
  /\ last.status = Panic
  /\ jar = last.cookie

\* C15: Guard checks and permission queries never change the token or the
\* expireAt of the client's record: a permission refresh writes the record it
\* read with only permissions and permExpireAt replaced, every other such
\* request writes nothing.
C15_ExpireAtNeverExtended ==
  last.op \in PermissionQuery \cup {"Secured"} =>
    IF last.wrote
      THEN /\ last.cookie.kind = "data"
           /\ last.setCookie =
                [last.cookie EXCEPT
                   !.Permissions = last.setCookie.Permissions,
                   !.PermExpireAt = last.setCookie.PermExpireAt]
           /\ jar = last.setCookie
      ELSE jar = last.cookie

C15_Witness ==
  /\ last.op \in PermissionQuery /\ last.wrote
  /\ last.cookie.PermExpireAt # ZeroTime
  /\ last.wroteAt + SessionExpireTime > last.cookie.ExpireAt
  /\ jar.ExpireAt = last.cookie.ExpireAt

\* C16: the permission list of every record this program writes to the
\* cookie, and so of every record the client holds and of every list
\* HasPermission searches, is sorted ascending.
C16_WrittenListsSorted ==
  /\ last.wrote => IsSorted(last.setCookie.Permissions)
  /\ jar.kind = "data" => IsSorted(jar.Permissions)
  /\ (last.op = "HasPermission" /\ last.ensured) =>
       IsSorted(last.data.Permissions)

C16_Witness ==
  /\ last.wrote /\ last.fetch.ok
  /\ last.fetch.body = << 2, 1 >>
  /\ jar.kind = "data"
  /\ jar.Permissions = << 1, 2 >>

\* C18: a record whose permExpireAt is unset (as the callback creates it) is
\* stale: a permission query on it always fetches, with that record's token,
\* and what it returns is the fetched list, not a list of an earlier record.
C18_NeverFetchedIsStale ==
  (last.ensured /\ last.cookie.PermExpireAt = ZeroTime) =>
    /\ last.fetches = 1
    /\ last.fetchToken = last.cookie.Token
    /\ last.status # Panic =>
         /\ last.data.Permissions = SortStrings(last.fetch.body)
         /\ last.op = "GetPermissions" =>
              last.result = PermsResult(SortStrings(last.fetch.body))

C18_Witness ==
  /\ last.ensured /\ last.cookie.PermExpireAt = ZeroTime
  /\ last.now > StartTime + SessionExpireTime
  /\ last.fetches = 1 /\ last.fetch.ok
  /\ last.fetch.body # << >>

\* C17: the Guard's redirect carries the rejected request's URI (path and
\* query) as the state parameter; a callback that receives that state and
\* whose exchange succeeds redirects (303) to exactly that URI; the callback
\* uses nothing but the state it is handed, whatever request came before.
C17_ReturnToSurvives ==
  [][ /\ (last'.op = "Secured" /\ last'.status = 303) =>
           last'.location = AuthLocation(last'.uri)
      /\ ( /\ last.op = "Secured" /\ last.status = 303
           /\ last'.op = "CallbackView" /\ last'.exchange.ok
           /\ last'.uri = last.location.state ) =>
           /\ last'.status = 303
           /\ last'.location = ContLocation(last.uri)
      /\ (last'.op = "CallbackView" /\ last'.status = 303) =>
           last'.location = ContLocation(last'.uri)
    ]_vars

C17_Witness ==
  /\ last.op = "CallbackView" /\ last.answersRedirect
  /\ last.status = 303
  /\ last.location = ContLocation("/b?q=1")
  /\ jar = last.setCookie

\* The instant at which the handler that answered resp returned its list.
ReturnedAt(resp) == IF resp.fetches = 1 THEN resp.wroteAt ELSE resp.now

\* C19: over requests that each present the cookie most recently delivered,
\* every list GetPermissions returns or HasPermission searches is the
\* (sorted) list of a call of the permissions endpoint made with the token of
\* the record in use and completed no more than PermissionExpireTime seconds
\* before the list is returned.
C19_BoundedStaleness ==
  (last.ensured /\ last.status # Panic) =>
    /\ origin.fetched
    /\ origin.token = last.cookie.Token
    /\ last.data.Token = last.cookie.Token
    /\ last.data.Permissions = origin.list
    /\ origin.at <= ReturnedAt(last)
    /\ ReturnedAt(last) - origin.at <= PermissionExpireTime
    /\ last.op = "GetPermissions" =>
         last.result = PermsResult(origin.list)

C19_Witness ==
  /\ last.ensured /\ last.status # Panic
  /\ last.fetches = 0
  /\ origin.fetched
  /\ last.now - origin.at = PermissionExpireTime
  /\ last.data.Permissions # << >>

Refreshed(resp) ==
  resp.ensured /\ resp.fetches = 1 /\ resp.fetch.ok /\ resp.status # Panic

\* C14: two requests that carry the same stale record and overlap each
\* fetch and each write (two fetches, two Set-Cookie, each the record read
\* with its own refreshed list and stamp); the client ends up with the
\* record of the response it receives last, whole.
C14_ConcurrentRefreshLastWins ==
  [][ ( /\ last' # last
        /\ last.ensured /\ last'.ensured
        /\ last'.cookie = last.cookie
        /\ IsPermExpired(last.cookie, last.now)
        /\ IsPermExpired(last'.cookie, last'.now)
        /\ last.fetch.ok /\ last'.fetch.ok ) =>
        /\ last.fetches = 1 /\ last'.fetches = 1
        /\ last.wrote /\ last'.wrote
        /\ jar = last.setCookie
        /\ jar' = last'.setCookie
        /\ last'.setCookie =
             [last'.cookie EXCEPT
                !.Permissions = SortStrings(last'.fetch.body),
                !.PermExpireAt = last'.wroteAt + PermissionExpireTime]
    ]_vars

C14_Witness ==
  /\ Refreshed(last) /\ last.wrote /\ last.overlapsPrev
  /\ last.replaced.kind = "data"
  /\ last.replaced.PermExpireAt # ZeroTime
  /\ last.replaced.Permissions # last.setCookie.Permissions
  /\ jar = last.setCookie

\* The record resp's Set-Cookie replaced was created by a callback that
\* overlapped with resp's request.
OverCallback(resp) ==
  /\ resp.overlapsPrev /\ resp.wrote
  /\ resp.replaced.kind = "data"
  /\ resp.replaced.PermExpireAt = ZeroTime
  /\ resp.replaced # resp.cookie

\* C20 as claimed: when a permission refresh that read the old record
\* overlaps with a callback, the client finally holds the token and expireAt
\* of the callback, whichever response arrives last.
C20_CallbackRecordSurvives ==
  /\ (last.op = "CallbackView" /\ last.wrote /\ last.overlapsPrev) =>
       /\ jar.Token = last.exchange.token
       /\ jar.ExpireAt = last.wroteAt + SessionExpireTime
  /\ (Refreshed(last) /\ OverCallback(last)) =>
       /\ jar.Token = last.replaced.Token
       /\ jar.ExpireAt = last.replaced.ExpireAt

\* C20: when a permission refresh that read the old record overlaps with a
\* callback, the client finally holds the record of the response it receives
\* last: the callback's record when the callback's response is last, the old
\* record's token and expireAt with the refreshed list when the refresh's
\* response is last (the callback's record is replaced).
C20_LastResponseWins ==
  /\ (last.op = "CallbackView" /\ last.wrote /\ last.overlapsPrev) =>
       /\ jar = last.setCookie
       /\ jar.Token = last.exchange.token
       /\ jar.ExpireAt = last.wroteAt + SessionExpireTime
       /\ jar.Permissions = << >> /\ jar.PermExpireAt = ZeroTime
  /\ (Refreshed(last) /\ OverCallback(last)) =>
       /\ jar = last.setCookie
       /\ jar.Token = last.cookie.Token
       /\ jar.ExpireAt = last.cookie.ExpireAt
       /\ jar.PermExpireAt = last.wroteAt + PermissionExpireTime
       /\ jar # last.replaced

C20_Witness ==
  /\ Refreshed(last) /\ OverCallback(last)
  /\ last.replaced.Token # last.cookie.Token
  /\ jar.Token = last.cookie.Token

====
